---- MODULE Spec2Model ----
(***************************************************************************)
(* A model of slogtool: the mode resolver (convert_modes.go) and the       *)
(* Slogger facade over log/slog (logger file).  The slog backend is        *)
(* modelled by what the facade relies on: the handler's level floor, the   *)
(* pre-attached attributes of a derived logger, and the parsing of the     *)
(* variadic ...any arguments into attributes.                              *)
(***************************************************************************)
EXTENDS Integers, Sequences, FiniteSets, TLC

\* ------------------------------------------------------------------ bounds
MaxCalls == 2       \* mode-resolver calls kept in the call history
MaxLoggers == 3     \* Slogger values alive at once
MaxOut == 2         \* records written to the sinks
MaxDerivedOut == 1  \* records written while loggers are being derived
BufCap == 2         \* capacity of the caller's attribute array

\* ------------------------------------------------------- convert_modes.go
DevMode == "dev"
ProdMode == "prod"

ModeStrings == {"dev", "prod", "", "DEV", "staging", "dev "}
Modes == {DevMode, ProdMode, "staging", ""}

LevelDebug == 0
LevelInfo == 1
LevelWarn == 2
LevelError == 3
LogLevels == (LevelDebug - 1) .. (LevelError + 1)

ParseModeLax(mode) ==
    CASE mode = DevMode -> DevMode
      [] mode = ProdMode -> ProdMode
      [] OTHER -> DevMode

ParseMode(mode) ==
    CASE mode = DevMode -> DevMode
      [] mode = ProdMode -> ProdMode
      [] OTHER -> ProdMode

ConvertLoggerModeLoud(mode) ==
    CASE mode = DevMode -> LevelDebug
      [] mode = ProdMode -> LevelInfo
      [] OTHER -> LevelDebug

ConvertLoggerMode(mode) ==
    CASE mode = DevMode -> LevelDebug
      [] mode = ProdMode -> LevelInfo
      [] OTHER -> LevelInfo

\* ------------------------------------------------------------ slog values
\* Every value passed as ...any has one shape: t is its dynamic type, k the
\* key of a slog.Attr (or of the one member of a group), v its text.
NilAny == [t |-> "nil", k |-> "", v |-> ""]
Str(s) == [t |-> "string", k |-> "", v |-> s]
Num(s) == [t |-> "int", k |-> "", v |-> s]
Attr(key, s) == [t |-> "attr", k |-> key, v |-> s]
Group1(key, s) == [t |-> "group", k |-> key, v |-> s]
\* An element of the array while a store to it is half done: one word of the
\* old value with one of the new.
Torn == [t |-> "torn", k |-> "", v |-> ""]
\* What a goroutine that loaded such an element can hold: with the type word
\* of a string, a string of no telling what text; with that of an Attr, an
\* Attr of no telling what key and value.
Garbage == "?"
TornAs == {Str(Garbage), Attr(Garbage, Garbage)}

\* An attribute of a record: key and value.
Field(key, val) == [key |-> key, val |-> val]

badKey == "!BADKEY"

\* slog severities, ordered DEBUG < INFO < WARN < ERROR.
SlogLevels == <<"DEBUG", "INFO", "WARN", "ERROR">>
Rank(level) == CHOOSE i \in 1..Len(SlogLevels) : SlogLevels[i] = level

\* log/slog argsToAttr, applied until the arguments are used up: an Attr is
\* taken as it is, a string is a key that takes the next argument as its
\* value (or is a value under !BADKEY when it is the last), anything else
\* is a value under !BADKEY.
RECURSIVE argsToAttrSlice(_)
argsToAttrSlice(args) ==
    IF args = <<>> THEN <<>>
    ELSE LET x == Head(args) IN
         CASE x.t = "string" ->
                IF Len(args) = 1 THEN <<Field(badKey, x)>>
                ELSE <<Field(x.v, args[2])>> \o argsToAttrSlice(SubSeq(args, 3, Len(args)))
           [] x.t = "attr" -> <<Field(x.k, Str(x.v))>> \o argsToAttrSlice(Tail(args))
           [] OTHER -> <<Field(badKey, x)>> \o argsToAttrSlice(Tail(args))

\* ------------------------------------------------------------------ state
VARIABLES
    buildInfo,   \* what debug.ReadBuildInfo returns in this process
    loggers,     \* the Slogger values, in order of creation
    out,         \* the records written, oldest first
    opens,       \* the os.OpenFile calls made
    panicked,    \* the panic that aborted the process, or NoPanic
    buf,         \* the caller's attribute array, of capacity BufCap
    last,        \* the last call that returned: arguments, result, state before
    modeCalls,   \* the mode-resolver calls made
    pc           \* per goroutine: where it stands in its call, and its frame

vars == <<buildInfo, loggers, out, opens, panicked, buf, last, modeCalls, pc>>

\* debug.ReadBuildInfo: nil when the binary carries no build information.
NoBuildInfo == [ok |-> FALSE, GoVersion |-> ""]
BuildInfos == {NoBuildInfo, [ok |-> TRUE, GoVersion |-> "go1.22"]}

NoPanic == [path |-> "", cause |-> ""]
\* The process killed by a fault on a value that is not one.
Fault == [path |-> "", cause |-> "fault"]

NilErr == [id |-> 0, msg |-> ""]
Errs == {NilErr, [id |-> 1, msg |-> "boom"], [id |-> 2, msg |-> "EOF"]}

Outputs == {"stdout", "stderr", "app.log", ""}
\* What os.OpenFile can answer for a path: "" is no file name at all.
OpenResults(path) == IF path = "" THEN {"ENOENT"} ELSE {"ok", "EACCES"}
OpenFlags == {"O_WRONLY", "O_CREATE", "O_APPEND"}

\* A slice of ...any as a call receives it: its elements, and whether it is
\* buf[:n] (sharing the caller's array, capacity BufCap) or the fresh array
\* of a call written with its arguments in place (capacity = length).
Lit(elems) == [shared |-> FALSE, elems |-> elems]
BufSlice(n) == [shared |-> TRUE, elems |-> SubSeq(buf, 1, n)]
NoArgs == Lit(<<>>)

\* The call the variable last records: the operation, the Slogger it was
\* called on (0: none), its arguments and result, and the state before it.
Call(op, g, text) ==
    [op |-> op, g |-> g, text |-> text, mode |-> 0, res |-> "", err |-> NilErr,
     attributes |-> NoArgs, ret |-> NilErr,
     nOut |-> Len(out), nOpens |-> Len(opens), nLoggers |-> Len(loggers), buf |-> buf]
NoCall == [op |-> "none", g |-> 0, text |-> "", mode |-> 0, res |-> "", err |-> NilErr,
           attributes |-> NoArgs, ret |-> NilErr,
           nOut |-> 0, nOpens |-> 0, nLoggers |-> 0, buf |-> <<>>]

\* The goroutines that call the logger.
Procs == {"A", "B"}

\* A goroutine outside every call.  Inside one: at is what it does next
\* ("store", "read", "write"), m the number of elements it reads out of the
\* caller's array, seen those it has read, more what follows them in its own
\* array, x the element its append stores, buf the array as the call found it.
Idle == [at |-> "idle", op |-> "none", level |-> "", g |-> 0, text |-> "", err |-> NilErr,
         attributes |-> NoArgs, want |-> <<>>, m |-> 0, seen |-> <<>>, more |-> <<>>,
         x |-> NilAny, inPlace |-> FALSE, buf |-> <<>>]

\* The process before InitLogger; the caller's array as make([]any, BufCap).
Init ==
    /\ buildInfo \in BuildInfos
    /\ loggers = <<>>
    /\ out = <<>>
    /\ opens = <<>>
    /\ panicked = NoPanic
    /\ buf = [i \in 1..BufCap |-> NilAny]
    /\ last = NoCall
    /\ modeCalls = <<>>
    /\ pc = [p \in Procs |-> Idle]

\* What the caller keeps in its array: keys and attributes in turn.
CallerVal(i) == IF i % 2 = 1 THEN Str("k") ELSE Attr("user", "bob")

\* The same with the caller's array filled with the attributes it will pass.
InitArgs ==
    /\ buildInfo \in {bi \in BuildInfos : bi.ok}
    /\ loggers = <<>>
    /\ out = <<>>
    /\ opens = <<>>
    /\ panicked = NoPanic
    /\ buf = [i \in 1..BufCap |-> CallerVal(i)]
    /\ last = NoCall
    /\ modeCalls = <<>>
    /\ pc = [p \in Procs |-> Idle]

\* ------------------------------------------------------------- InitLogger
StdStreams == {"stdout", "stderr"}

opensFileButStdout(output) == output # "stdout"

\* The switch on output: every string but the two literals is a path.
opensFile(output) == output \notin StdStreams

getHandlerForOutputFlat(output, mode) ==
    CASE mode = LevelDebug -> [kind |-> "tint", floor |-> "DEBUG", sink |-> output]
      [] mode = LevelInfo -> [kind |-> "json", floor |-> "INFO", sink |-> output]
      [] mode = LevelWarn -> [kind |-> "json", floor |-> "INFO", sink |-> output]
      [] mode = LevelError -> [kind |-> "json", floor |-> "ERROR", sink |-> output]
      [] OTHER -> [kind |-> "tint", floor |-> "DEBUG", sink |-> output]

getHandlerForOutputJson(output, mode) ==
    CASE mode = LevelDebug -> [kind |-> "tint", floor |-> "DEBUG", sink |-> output]
      [] mode = LevelInfo -> [kind |-> "json", floor |-> "INFO", sink |-> output]
      [] mode = LevelWarn -> [kind |-> "json", floor |-> "WARN", sink |-> output]
      [] mode = LevelError -> [kind |-> "json", floor |-> "ERROR", sink |-> output]
      [] OTHER -> [kind |-> "json", floor |-> "INFO", sink |-> output]

\* tint.Options.Level is slog.LevelDebug.
getHandlerForOutput(output, mode) ==
    CASE mode = LevelDebug -> [kind |-> "tint", floor |-> "DEBUG", sink |-> output]
      [] mode = LevelInfo -> [kind |-> "json", floor |-> "INFO", sink |-> output]
      [] mode = LevelWarn -> [kind |-> "json", floor |-> "WARN", sink |-> output]
      [] mode = LevelError -> [kind |-> "json", floor |-> "ERROR", sink |-> output]
      [] OTHER -> [kind |-> "tint", floor |-> "DEBUG", sink |-> output]

programInfoBare(bi) == <<Field("program_info", Group1("go_version", bi.GoVersion))>>

programInfo(bi) ==
    <<Field("program_info",
            Group1("go_version", IF bi.ok THEN bi.GoVersion ELSE "unknown"))>>

\* A Slogger: its handler (kind, floor, sink), the attributes the handler
\* carries, and for the record the level it was built at, the Slogger it
\* was derived from (0: built by InitLogger) and what the derivation added.
Slogger(handler, attrs, mode, parent, added) ==
    [kind |-> handler.kind, floor |-> handler.floor, sink |-> handler.sink,
     attrs |-> attrs, mode |-> mode, parent |-> parent, added |-> added]

Alive == panicked = NoPanic

InitLogger(mode, output, res) ==
    /\ Alive
    /\ last' = [Call("InitLogger", 0, output) EXCEPT !.mode = mode, !.res = res]
    /\ IF opensFile(output)
       THEN /\ opens' = Append(opens, [path |-> output, flags |-> OpenFlags, perm |-> "0755"])
            /\ IF res = "ok"
               THEN /\ loggers' = Append(loggers, Slogger(getHandlerForOutput(output, mode),
                                         programInfo(buildInfo), mode, 0, programInfo(buildInfo)))
                    /\ UNCHANGED panicked
               ELSE /\ panicked' = [path |-> output, cause |-> res]
                    /\ UNCHANGED loggers
       ELSE /\ loggers' = Append(loggers, Slogger(getHandlerForOutput(output, mode),
                                 programInfo(buildInfo), mode, 0, programInfo(buildInfo)))
            /\ UNCHANGED <<opens, panicked>>
    /\ UNCHANGED <<buildInfo, out, buf, modeCalls, pc>>

\* ------------------------------------------------------------ log calls
\* slog.Logger.log: nothing below the handler's floor; else one record with
\* the handler's attributes followed by the call's.  by is the call that
\* wrote the record.
slogLog(o, lg, level, msg, args, by) ==
    IF Rank(level) >= Rank(lg.floor)
    THEN Append(o, [sink |-> lg.sink, kind |-> lg.kind, level |-> level, msg |-> msg,
                    attrs |-> lg.attrs \o argsToAttrSlice(args), by |-> by])
    ELSE o

CanCall(g) == Alive /\ g \in DOMAIN loggers

\* The frame of a call: given is the slice the caller wrote in its call,
\* want the arguments slog gets when no other goroutine touches the array.
Frame(op, level, g, text, err, given, want) ==
    [Idle EXCEPT !.op = op, !.level = level, !.g = g, !.text = text, !.err = err,
                 !.attributes = given, !.want = want, !.buf = buf]

\* The handler's Handle, under its mutex, with the arguments slog collected,
\* and the return of the call; LogAndReturnError then returns err (line 45).
\* alone: the arguments are those the call has when no other goroutine
\* stores into the array during it.
Handle(f, args) ==
    /\ out' = slogLog(out, loggers[f.g], f.level, f.text, args,
                      [op |-> f.op, g |-> f.g, err |-> f.err,
                       args |-> f.attributes.elems, read |-> args,
                       alone |-> args = f.want])
    /\ last' = [Call(f.op, f.g, f.text) EXCEPT
                   !.err = f.err, !.attributes = f.attributes,
                   !.ret = IF f.op = "LogAndReturnError" THEN f.err ELSE NilErr,
                   !.buf = f.buf]

\* l.logger.Debug/Info/Warn(description, attributes...): below the floor slog
\* returns before it looks at the arguments.  Arguments written in the call
\* are the call's own, and the record follows at once; a slice of the
\* caller's array is read element by element (Record.Add), unordered against
\* the other goroutines, and the record is written after the last read.
slogCall(p, f, attributes) ==
    IF \/ Rank(f.level) < Rank(loggers[f.g].floor)
       \/ ~attributes.shared
       \/ attributes.elems = <<>>
    THEN /\ Handle(f, attributes.elems)
         /\ UNCHANGED pc
    ELSE /\ pc' = [pc EXCEPT ![p] =
                      [f EXCEPT !.at = IF Len(attributes.elems) = 1 THEN "write" ELSE "read",
                                !.m = Len(attributes.elems),
                                !.seen = <<buf[1]>>]]
         /\ UNCHANGED <<out, last>>

Debug(p, g, description, attributes) ==
    /\ CanCall(g)
    /\ pc[p].at = "idle"
    /\ slogCall(p, Frame("Debug", "DEBUG", g, description, NilErr, attributes,
                         attributes.elems), attributes)
    /\ UNCHANGED <<buildInfo, loggers, opens, panicked, buf, modeCalls>>

Info(p, g, description, attributes) ==
    /\ CanCall(g)
    /\ pc[p].at = "idle"
    /\ slogCall(p, Frame("Info", "INFO", g, description, NilErr, attributes,
                         attributes.elems), attributes)
    /\ UNCHANGED <<buildInfo, loggers, opens, panicked, buf, modeCalls>>

Warn(p, g, description, attributes) ==
    /\ CanCall(g)
    /\ pc[p].at = "idle"
    /\ slogCall(p, Frame("Warn", "WARN", g, description, NilErr, attributes,
                         attributes.elems), attributes)
    /\ UNCHANGED <<buildInfo, loggers, opens, panicked, buf, modeCalls>>

\* The attribute Error adds.
errorAttr(err) == Attr("error", IF err = NilErr THEN "nil" ELSE err.msg)

\* append(attributes, x) is in place when the array has room after the slice,
\* in a new array otherwise.
appendInPlace(attributes) == attributes.shared /\ Len(attributes.elems) < BufCap

\* Error from its entry to its first access to memory it shares (lines
\* 119-120, 127).  attributes is the slice that reaches Error.
\*  - Arguments written in the call: append allocates, the slice handed to
\*    slog is the call's own, and the record follows at once.
\*  - A slice of the caller's array with room after it: append stores x in
\*    the array, at the index after the slice.  An interface value is two
\*    words; over an element of another dynamic type the store is seen
\*    half-done (Torn) until StoreEnd.
\*  - A slice that fills the array: append allocates and copies the elements
\*    one by one out of the array, the first of them here.
ErrorCall(p, op, g, description, err, given, attributes) ==
    LET x == errorAttr(err)
        n == Len(attributes.elems)
        f == Frame(op, "ERROR", g, description, err, given, attributes.elems \o <<x>>)
    IN  /\ CanCall(g)
        /\ pc[p].at = "idle"
        /\ IF ~attributes.shared
           THEN /\ Handle(f, attributes.elems \o <<x>>)
                /\ UNCHANGED <<buf, pc>>
           ELSE IF appendInPlace(attributes)
           THEN /\ buf' = [buf EXCEPT ![n + 1] = IF @.t = x.t THEN x ELSE Torn]
                /\ pc' = [pc EXCEPT ![p] =
                             [f EXCEPT !.at = IF buf[n + 1].t = x.t THEN "read" ELSE "store",
                                       !.m = n + 1, !.x = x, !.inPlace = TRUE]]
                /\ UNCHANGED <<out, last>>
           ELSE /\ pc' = [pc EXCEPT ![p] =
                             [f EXCEPT !.at = IF n = 1 THEN "write" ELSE "read",
                                       !.m = n, !.seen = <<buf[1]>>, !.more = <<x>>]]
                /\ UNCHANGED <<buf, out, last>>
        /\ UNCHANGED <<buildInfo, loggers, opens, panicked, modeCalls>>

\* The second word of append's store: the element is x.
StoreEnd(p) ==
    /\ Alive
    /\ pc[p].at = "store"
    /\ buf' = [buf EXCEPT ![pc[p].m] = pc[p].x]
    /\ pc' = [pc EXCEPT ![p].at = "read"]
    /\ UNCHANGED <<buildInfo, loggers, out, opens, panicked, last, modeCalls>>

\* One element read out of the caller's array as it is by now: by slog
\* collecting the arguments of the record (lines 122, 128), or by append
\* copying into its new array (lines 120, 127).
ReadElem(p) ==
    /\ Alive
    /\ pc[p].at = "read"
    /\ pc' = [pc EXCEPT ![p].seen = @ \o <<buf[Len(@) + 1]>>,
                        ![p].at = IF Len(pc[p].seen) + 1 = pc[p].m THEN "write" ELSE "read"]
    /\ UNCHANGED <<buildInfo, loggers, out, opens, panicked, buf, last, modeCalls>>

\* The arguments as slog takes them from what was loaded: every torn
\* element as one of the values it can pass for.
Readings(args) ==
    LET T == {i \in DOMAIN args : args[i] = Torn}
    IN  {[i \in DOMAIN args |-> IF i \in T THEN c[i] ELSE args[i]] : c \in [T -> TornAs]}

\* The record of a call that has its arguments: what it read, and then what
\* append put after its copy.
WriteRecord(p) ==
    /\ Alive
    /\ pc[p].at = "write"
    /\ \E args \in Readings(pc[p].seen \o pc[p].more) : Handle(pc[p], args)
    /\ pc' = [pc EXCEPT ![p] = Idle]
    /\ UNCHANGED <<buildInfo, loggers, opens, panicked, buf, modeCalls>>

\* The other end of a torn load: slog or the handler follows a pointer that
\* is none, and the process dies with no record of the call.
TornFault(p) ==
    /\ Alive
    /\ pc[p].at \in {"read", "write"}
    /\ \E i \in DOMAIN pc[p].seen : pc[p].seen[i] = Torn
    /\ panicked' = Fault
    /\ UNCHANGED <<buildInfo, loggers, out, opens, buf, last, modeCalls, pc>>

\* A call of Error enters its body with the caller's slice.
Error(p, g, description, err, attributes) ==
    ErrorCall(p, "Error", g, description, err, attributes, attributes)

LogAndReturnErrorBare(p, g, message, err, attributes) ==
    ErrorCall(p, "LogAndReturnError", g, message, err, attributes, NoArgs)

\* l.Error(message, err, attributes...) with the slice it was given (line 43).
LogAndReturnError(p, g, message, err, attributes) ==
    ErrorCall(p, "LogAndReturnError", g, message, err, attributes, attributes)

\* ------------------------------------------------------------ derivation
deriveInPlace(ls, g, added) ==
    Append([ls EXCEPT ![g].attrs = @ \o added],
           Slogger(ls[g], ls[g].attrs \o added, ls[g].mode, g, added))

\* newLogger := *l; newLogger.logger = newLogger.logger.With(...): a new
\* Slogger whose handler carries the receiver's attributes and the added.
derive(ls, g, added) ==
    Append(ls, Slogger(ls[g], ls[g].attrs \o added, ls[g].mode, g, added))

CanDerive(g) == Alive /\ g \in DOMAIN loggers

WithOperation(g, operation) ==
    /\ CanDerive(g)
    /\ loggers' = derive(loggers, g, argsToAttrSlice(<<Attr("operation", operation)>>))
    /\ last' = Call("WithOperation", g, operation)
    /\ UNCHANGED <<buildInfo, out, opens, panicked, buf, modeCalls, pc>>

With(g, attributes) ==
    /\ CanDerive(g)
    /\ loggers' = derive(loggers, g, argsToAttrSlice(attributes.elems))
    /\ last' = [Call("With", g, "") EXCEPT !.attributes = attributes]
    /\ UNCHANGED <<buildInfo, out, opens, panicked, buf, modeCalls, pc>>

\* ---------------------------------------------------------- mode resolver
ParseModeCall(mode) ==
    /\ Len(modeCalls) < MaxCalls
    /\ modeCalls' = Append(modeCalls, [fn |-> "ParseMode", arg |-> mode,
                                       mode |-> ParseMode(mode), level |-> LevelInfo])
    /\ UNCHANGED <<buildInfo, loggers, out, opens, panicked, buf, last, pc>>

\* ConvertLoggerMode on any Mode value, among them what ParseMode returned.
ConvertLoggerModeCall(mode) ==
    /\ Len(modeCalls) < MaxCalls
    /\ modeCalls' = Append(modeCalls, [fn |-> "ConvertLoggerMode", arg |-> mode,
                                       mode |-> mode, level |-> ConvertLoggerMode(mode)])
    /\ UNCHANGED <<buildInfo, loggers, out, opens, panicked, buf, last, pc>>

ParsedModes ==
    {modeCalls[i].mode : i \in {j \in DOMAIN modeCalls : modeCalls[j].fn = "ParseMode"}}

NextMode ==
    \/ \E s \in ModeStrings : ParseModeCall(s)
    \/ \E m \in Modes \cup ParsedModes : ConvertLoggerModeCall(m)

SpecMode == Init /\ [][NextMode]_vars

\* ------------------------------------------------------- specifications
\* In each of them the process builds its logger once, at start, and the
\* number of records and of derived loggers is bounded.
Descriptions == {"started"}
Operations == {"sync"}

\* The calls that have not written their record yet.
Pending == Cardinality({p \in Procs : pc[p].at # "idle"})

\* Construction with every level and output, then the four severities.
Next ==
    \/ loggers = <<>> /\ \E mode \in LogLevels, output \in Outputs :
          \E res \in OpenResults(output) : InitLogger(mode, output, res)
    \/ Len(out) + Pending < MaxOut /\ \E p \in Procs, g \in DOMAIN loggers,
          d \in Descriptions : Debug(p, g, d, NoArgs)
    \/ Len(out) + Pending < MaxOut /\ \E p \in Procs, g \in DOMAIN loggers,
          d \in Descriptions : Info(p, g, d, NoArgs)
    \/ Len(out) + Pending < MaxOut /\ \E p \in Procs, g \in DOMAIN loggers,
          d \in Descriptions : Warn(p, g, d, NoArgs)
    \/ Len(out) + Pending < MaxOut /\ \E p \in Procs, g \in DOMAIN loggers, d \in Descriptions,
          err \in Errs : Error(p, g, d, err, NoArgs)

Spec == Init /\ [][Next]_vars

\* The attribute lists a caller passes: its array cut at any length (the
\* whole array leaves append no room, so that it allocates).
Slices == {BufSlice(n) : n \in 0..BufCap}

\* The errors each goroutine reports.
ErrsOf(p) == IF p = "A" THEN {NilErr, [id |-> 1, msg |-> "boom"]}
                        ELSE {[id |-> 2, msg |-> "EOF"]}

\* One logger on stdout; two goroutines calling Error and LogAndReturnError
\* with slices of the one array.
NextError ==
    \/ loggers = <<>> /\ \E mode \in {LevelDebug, LevelError} : InitLogger(mode, "stdout", "ok")
    \/ Len(out) + Pending < MaxOut /\ \E p \in Procs, g \in DOMAIN loggers, d \in Descriptions :
          \E err \in ErrsOf(p), a \in Slices : Error(p, g, d, err, a)
    \/ Len(out) + Pending < MaxOut /\ \E p \in Procs, g \in DOMAIN loggers, d \in Descriptions :
          \E err \in ErrsOf(p), a \in Slices : LogAndReturnError(p, g, d, err, a)
    \/ \E p \in Procs : StoreEnd(p)
    \/ \E p \in Procs : ReadElem(p)
    \/ \E p \in Procs : WriteRecord(p)
    \/ \E p \in Procs : TornFault(p)

SpecError == InitArgs /\ [][NextError]_vars

\* The attribute lists given to With: a key and its value, a key with no
\* value (WithOperation gives an attribute).
WithArgs == {Lit(<<Str("k"), Num("42")>>), Lit(<<Str("k")>>)}

\* One logger on stdout at each of the four levels; derivation from any
\* logger, in any order with the calls.  No call shares an array here, so
\* that which goroutine calls is immaterial: one does.
NextDerive ==
    \/ loggers = <<>> /\ \E mode \in LevelDebug..LevelError : InitLogger(mode, "stdout", "ok")
    \/ Len(loggers) < MaxLoggers /\ \E g \in DOMAIN loggers, op \in Operations : WithOperation(g, op)
    \/ Len(loggers) < MaxLoggers /\ \E g \in DOMAIN loggers, a \in WithArgs : With(g, a)
    \/ Len(out) + Pending < MaxDerivedOut /\ \E g \in DOMAIN loggers, d \in Descriptions :
          Debug("A", g, d, NoArgs)
    \/ Len(out) + Pending < MaxDerivedOut /\ \E g \in DOMAIN loggers, d \in Descriptions :
          Info("A", g, d, NoArgs)
    \/ Len(out) + Pending < MaxDerivedOut /\ \E g \in DOMAIN loggers, d \in Descriptions :
          Warn("A", g, d, NoArgs)
    \/ Len(out) + Pending < MaxDerivedOut /\ \E g \in DOMAIN loggers, d \in Descriptions :
          Error("A", g, d, NilErr, NoArgs)

SpecDerive == Init /\ [][NextDerive]_vars

\* ------------------------------------------------------------- properties
SeverityOps == {"Debug", "Info", "Warn", "Error"}

\* The severity of a call, as a LogLevel and as slog prints it.
SeverityOf(op) ==
    CASE op = "Debug" -> LevelDebug
      [] op = "Info" -> LevelInfo
      [] op = "Warn" -> LevelWarn
      [] OTHER -> LevelError
LevelName(level) == SlogLevels[level - LevelDebug + 1]

\* The Slogger built by InitLogger from which g descends.
RECURSIVE RootOf(_)
RootOf(g) == IF loggers[g].parent = 0 THEN g ELSE RootOf(loggers[g].parent)

\* What g's derivation chain attached, oldest first.
RECURSIVE Chain(_)
Chain(g) ==
    IF loggers[g].parent = 0 THEN loggers[g].added
    ELSE Chain(loggers[g].parent) \o loggers[g].added

Emitted == Len(out) = last.nOut + 1
Suppressed == Len(out) = last.nOut
LastRecord == out[Len(out)]

\* C1: ParseMode returns DevMode exactly for "dev" and ProdMode for every
\* other string, the empty one included; no third Mode is ever returned.
C1_ParseModeTotal ==
    \A i \in DOMAIN modeCalls :
        modeCalls[i].fn = "ParseMode" =>
            /\ modeCalls[i].mode \in {DevMode, ProdMode}
            /\ modeCalls[i].mode = DevMode <=> modeCalls[i].arg = "dev"
            /\ modeCalls[i].arg # "dev" => modeCalls[i].mode = ProdMode

C1_Witness ==
    \E i, j \in DOMAIN modeCalls :
        /\ modeCalls[i].fn = "ParseMode" /\ modeCalls[i].arg = "" /\ modeCalls[i].mode = ProdMode
        /\ modeCalls[j].fn = "ParseMode" /\ modeCalls[j].arg = "dev" /\ modeCalls[j].mode = DevMode

\* C2: ConvertLoggerMode gives LevelDebug for DevMode and LevelInfo for
\* ProdMode and for every other Mode; applied to what ParseMode returned for
\* a string it gives LevelDebug exactly when the string is "dev", LevelInfo
\* otherwise.
C2_ConvertLoggerModeTotal ==
    \A j \in DOMAIN modeCalls :
        modeCalls[j].fn = "ConvertLoggerMode" =>
            /\ modeCalls[j].level = IF modeCalls[j].arg = "dev" THEN LevelDebug ELSE LevelInfo
            /\ \A i \in DOMAIN modeCalls :
                  (modeCalls[i].fn = "ParseMode" /\ modeCalls[i].mode = modeCalls[j].arg) =>
                      /\ modeCalls[j].level \in {LevelDebug, LevelInfo}
                      /\ modeCalls[j].level = LevelDebug <=> modeCalls[i].arg = "dev"

C2_Witness ==
    \E i, j \in DOMAIN modeCalls :
        /\ i < j
        /\ modeCalls[i].fn = "ParseMode" /\ modeCalls[i].arg = "staging"
        /\ modeCalls[j].fn = "ConvertLoggerMode" /\ modeCalls[j].arg = modeCalls[i].mode
        /\ modeCalls[j].level = LevelInfo

\* C3: on a logger built at level L in debug..error, and on every logger
\* derived from it, a call of severity s writes exactly one record (of that
\* severity, through that logger) when s >= L and writes nothing when s < L.
C3_FloorIsLevel ==
    (last.op \in SeverityOps /\ loggers[RootOf(last.g)].mode \in LevelDebug..LevelError) =>
        IF SeverityOf(last.op) >= loggers[RootOf(last.g)].mode
        THEN /\ Emitted
             /\ LastRecord.level = LevelName(SeverityOf(last.op))
             /\ LastRecord.by.g = last.g
        ELSE Suppressed

C3_Witness ==
    /\ last.op = "Info"
    /\ loggers[last.g].parent # 0
    /\ loggers[loggers[last.g].parent].parent # 0
    /\ loggers[RootOf(last.g)].mode = LevelWarn
    /\ Suppressed

\* The attributes a record gets from the call that wrote it.
CallAttrs(by) ==
    argsToAttrSlice(IF by.op \in {"Error", "LogAndReturnError"}
                    THEN by.args \o <<errorAttr(by.err)>>
                    ELSE by.args)

\* The text Error is to report for err.
ErrorText(err) == IF err = NilErr THEN "nil" ELSE err.msg

HasField(r, key, val) == \E i \in DOMAIN r.attrs : r.attrs[i] = Field(key, val)

\* The arguments, read as slog reads them, end in a key with no value.
RECURSIVE EndsInKey(_)
EndsInKey(args) ==
    IF args = <<>> THEN FALSE
    ELSE IF Head(args).t = "string"
         THEN Len(args) = 1 \/ EndsInKey(SubSeq(args, 3, Len(args)))
         ELSE EndsInKey(Tail(args))

\* C4: for every err and every attribute list, Error writes one record of
\* severity ERROR that has the field "error", holding "nil" for a nil err
\* and err's text otherwise.
C4_ErrorFieldAlways ==
    last.op = "Error" =>
        /\ Emitted
        /\ LastRecord.level = "ERROR"
        /\ HasField(LastRecord, "error", Str(ErrorText(last.err)))

\* C4, where it does hold: the same for the attribute lists that do not end
\* in a key with no value, in a call whose slice no other goroutine wrote
\* between its append and its record.
C4_ErrorFieldWhenPaired ==
    (last.op = "Error" /\ ~EndsInKey(last.attributes.elems) /\ LastRecord.by.alone) =>
        /\ Emitted
        /\ LastRecord.level = "ERROR"
        /\ HasField(LastRecord, "error", Str(ErrorText(last.err)))

\* A record of Error or LogAndReturnError carries the attribute of its own
\* call.  Two calls appending in place to slices of one array break it: the
\* later store is what both records read.
RecordsOwnError ==
    \A i \in DOMAIN out :
        out[i].by.op \in {"Error", "LogAndReturnError"} =>
            out[i].by.read[Len(out[i].by.read)] = errorAttr(out[i].by.err)

\* C5: a call of LogAndReturnError that returns has returned the err it was
\* given and has written exactly one record; that record is of severity
\* ERROR, and when no other goroutine stored into the caller's array during
\* the call it holds the logger's attributes, then the caller's attributes
\* with the "error" attribute of err after them, as slog reads that list; a
\* record of Error and one of LogAndReturnError for the same logger,
\* message, err and attributes, neither disturbed, are the same in every
\* field.
C5_LogAndReturnSame ==
    /\ last.op = "LogAndReturnError" =>
          /\ last.ret = last.err
          /\ Emitted
          /\ LastRecord.by.op = "LogAndReturnError"
          /\ LastRecord.by.err = last.err
          /\ LastRecord.msg = last.text
    /\ \A j \in DOMAIN out :
          out[j].by.op = "LogAndReturnError" =>
              /\ out[j].level = "ERROR"
              /\ out[j].by.alone =>
                    out[j].attrs =
                        Chain(out[j].by.g) \o
                        argsToAttrSlice(out[j].by.args \o
                                        <<Attr("error", ErrorText(out[j].by.err))>>)
    /\ \A i, j \in DOMAIN out :
          ( /\ out[i].by.op = "Error"
            /\ out[j].by.op = "LogAndReturnError"
            /\ out[i].by.alone /\ out[j].by.alone
            /\ out[i].by.g = out[j].by.g
            /\ out[i].by.err = out[j].by.err
            /\ out[i].by.args = out[j].by.args
            /\ out[i].msg = out[j].msg ) =>
              /\ out[i].attrs = out[j].attrs
              /\ out[i].level = out[j].level
              /\ out[i].kind = out[j].kind
              /\ out[i].sink = out[j].sink

C5_Witness ==
    /\ last.op = "LogAndReturnError"
    /\ last.err # NilErr
    /\ last.ret = last.err
    /\ LastRecord.by.alone
    /\ \E i \in DOMAIN out :
          /\ i < Len(out)
          /\ out[i].by.op = "Error"
          /\ out[i].by.alone
          /\ out[i].by.err = last.err
          /\ out[i].by.args = last.attributes.elems
          /\ Len(out[i].by.args) > 0

\* C6: derivation leaves every existing Slogger as it was: each Slogger
\* carries exactly what its own derivation chain attached, and each record
\* carries exactly its logger's chain followed by the call's attributes.
C6_DeriveLeavesReceiver ==
    /\ \A g \in DOMAIN loggers : loggers[g].attrs = Chain(g)
    /\ \A i \in DOMAIN out : out[i].attrs = Chain(out[i].by.g) \o CallAttrs(out[i].by)

C6_Witness ==
    /\ Len(loggers) >= 3
    /\ loggers[last.g].parent # 0
    /\ \E d \in DOMAIN loggers :
          /\ d > last.g
          /\ loggers[d].parent = loggers[last.g].parent
          /\ loggers[d].added # <<>>
          /\ loggers[d].added # loggers[last.g].added
    /\ last.op = "Warn"
    /\ last.nLoggers = Len(loggers)
    /\ Emitted

\* C7: InitLogger opens a file exactly when output is neither "stdout" nor
\* "stderr": the two literals give a logger on that stream and no open; any
\* other string is opened, that path, write-only with create and append; a
\* failed open panics with the path and the cause, returns no logger, and
\* nothing runs after it.
C7_OpenOnlyPaths ==
    /\ last.op = "InitLogger" =>
          IF last.text \in StdStreams
          THEN /\ Len(opens) = last.nOpens
               /\ panicked = NoPanic
               /\ Len(loggers) = last.nLoggers + 1
               /\ loggers[Len(loggers)].sink = last.text
          ELSE /\ Len(opens) = last.nOpens + 1
               /\ opens[Len(opens)].path = last.text
               /\ opens[Len(opens)].flags = {"O_WRONLY", "O_CREATE", "O_APPEND"}
               /\ IF last.res = "ok"
                  THEN /\ panicked = NoPanic
                       /\ Len(loggers) = last.nLoggers + 1
                       /\ loggers[Len(loggers)].sink = last.text
                  ELSE /\ panicked = [path |-> last.text, cause |-> last.res]
                       /\ Len(loggers) = last.nLoggers
    /\ panicked # NoPanic => (last.op = "InitLogger" /\ loggers = <<>> /\ out = <<>>)
    /\ \A g \in DOMAIN loggers :
          loggers[g].sink \in StdStreams \/ \E i \in DOMAIN opens : opens[i].path = loggers[g].sink
    /\ \A i \in DOMAIN opens : opens[i].path \notin StdStreams

C7_Witness ==
    /\ last.op = "InitLogger"
    /\ last.text = "app.log"
    /\ panicked = [path |-> "app.log", cause |-> "EACCES"]
    /\ loggers = <<>>

\* C8: the renderer follows from the level alone, whatever the sink: debug
\* and every level outside debug..error give the pretty renderer with floor
\* debug, so that all four severities are written; info, warn and error give
\* the structured renderer with the level as floor.  A logger built on
\* stdout from a mode string writes Info("started") as one pretty line for
\* "dev" and as one structured INFO record for every other string.
C8_RendererByLevel ==
    /\ \A g \in DOMAIN loggers :
          IF loggers[g].mode \in {LevelInfo, LevelWarn, LevelError}
          THEN loggers[g].kind = "json" /\ loggers[g].floor = LevelName(loggers[g].mode)
          ELSE loggers[g].kind = "tint" /\ loggers[g].floor = "DEBUG"
    /\ (last.op \in SeverityOps /\ Emitted) => LastRecord.kind = loggers[last.g].kind
    /\ (last.op \in SeverityOps /\ loggers[last.g].mode \notin {LevelInfo, LevelWarn, LevelError})
          => Emitted
    /\ \A s \in ModeStrings :
          ( /\ last.op = "Info"
            /\ last.text = "started"
            /\ loggers[last.g].mode = ConvertLoggerMode(ParseMode(s))
            /\ loggers[last.g].sink = "stdout" ) =>
              /\ Emitted
              /\ LastRecord.sink = "stdout"
              /\ LastRecord.msg = "started"
              /\ LastRecord.level = "INFO"
              /\ LastRecord.kind = IF s = "dev" THEN "tint" ELSE "json"

C8_Witness ==
    /\ last.op = "Debug"
    /\ loggers[last.g].mode = LevelError + 1
    /\ loggers[last.g].sink = "app.log"
    /\ Emitted
    /\ LastRecord.kind = "tint"

\* C9: every record, from the logger InitLogger returned or from any logger
\* derived from it, has the group program_info once, with the one field
\* go_version holding the build's Go version, or "unknown" when there is no
\* build information; and InitLogger returns its logger either way.
C9_ProgramInfoAlways ==
    /\ \A i \in DOMAIN out :
          /\ Cardinality({n \in DOMAIN out[i].attrs : out[i].attrs[n].key = "program_info"}) = 1
          /\ HasField(out[i], "program_info",
                      Group1("go_version",
                             IF buildInfo.ok THEN buildInfo.GoVersion ELSE "unknown"))
    /\ last.op = "InitLogger" => (panicked = NoPanic /\ Len(loggers) = last.nLoggers + 1)

C9_Witness ==
    /\ ~buildInfo.ok
    /\ last.op \in SeverityOps
    /\ loggers[last.g].parent # 0
    /\ Emitted
    /\ HasField(LastRecord, "program_info", Group1("go_version", "unknown"))

\* C10: Error and LogAndReturnError write no element of the array behind
\* the slice the caller passed.
C10_CallerArrayUntouched ==
    last.op \in {"Error", "LogAndReturnError"} => buf = last.buf

\* C10, where it does hold: the array is written only by a call whose slice
\* leaves room in it; a call whose slice fills the array writes no element.
C10_UntouchedWhenFull ==
    [][buf' = buf \/ \E p \in Procs :
                        /\ pc[p].at \in {"idle", "store"}
                        /\ pc'[p].at \in {"store", "read"}
                        /\ pc'[p].inPlace]_vars

====
